---- MODULE Spec2Model ----
(***************************************************************************)
(* RegionSamplingThread (services/surfaceflinger/RegionSamplingThread.cpp) *)
(* as a state machine: the worker thread running threadMain and            *)
(* captureSample, the compositor main thread that calls sampleNow and      *)
(* services the screen capture, binder threads that add and remove         *)
(* listeners and deliver death notifications, and the thread that runs     *)
(* the destructor.  A lock_guard critical section that calls nothing       *)
(* blocking is one step, enabled when mMutex is free; the worker is the    *)
(* only thread that holds mMutex across steps.                             *)
(***************************************************************************)
EXTENDS Integers, Sequences, FiniteSets, TLC

\* ------------------------------------------------------------------ bounds
MaxListener == 2
MaxLayer == 2
MaxAhead == 2
MaxSide == 3
MaxPixels == 4

Listeners == 1..MaxListener
Layers == 1..MaxLayer

\* ------------------------------------------------------------------- rects
Rect(l, t, r, b) == [left |-> l, top |-> t, right |-> r, bottom |-> b]

Min(a, b) == IF a < b THEN a ELSE b

Max(a, b) == IF a > b THEN a ELSE b

getWidth(r) == r.right - r.left

getHeight(r) == r.bottom - r.top

isEmpty(r) == getWidth(r) <= 0 \/ getHeight(r) <= 0

\* Rect::intersect(with, &result): the overlap is not empty.
Intersect(a, b) ==
    ~isEmpty(Rect(Max(a.left, b.left), Max(a.top, b.top),
                  Min(a.right, b.right), Min(a.bottom, b.bottom)))

\* The sampling areas callers register (the two overlapping areas of the
\* two-listener scenario).
AreaA == Rect(0, 0, 10, 10)

AreaB == Rect(5, 5, 15, 15)

Areas == {AreaA, AreaB}

\* A null stopLayerHandle gives a null wp<Layer>, which promotes to no layer.
NoLayer == 0

StopLayers == {NoLayer} \cup Layers

\* transform.transform(layer->getBounds(), roundOutwards) of each layer of the
\* scene: layer 1 covers both areas, layer 2 lies inside AreaB only, layer 3
\* lies inside the sampled bounds but only touches the edges of both areas,
\* every further layer lies outside the sampled bounds.
LayerBounds(layer) ==
    CASE layer = 1 -> Rect(0, 0, 20, 20)
      [] layer = 2 -> Rect(12, 12, 15, 15)
      [] layer = 3 -> Rect(10, 0, 20, 5)
      [] OTHER -> Rect(20, 20, 30, 30)

\* What traverseLayersInDisplay may visit: any layers of the scene, each once,
\* in any order.
Scenes ==
    {s \in UNION {[1..n -> Layers] : n \in 0..MaxLayer} :
        \A i, j \in DOMAIN s : i # j => s[i] # s[j]}

\* -------------------------------------------------------------- descriptors
\* One entry of mDescriptors: the key wp<IBinder>(asBinder(listener)) and the
\* Descriptor{samplingArea, stopLayer, listener}.
Descriptor(l, area, stop) ==
    [key |-> l, area |-> area, stopLayer |-> stop, listener |-> l]

Keys(descs) == {d.key : d \in descs}

\* A registry that keeps a second entry for a key it already holds.
EmplaceDuplicate(descs, d) == descs \cup {d}

\* unordered_map::emplace: inserts only when the key is absent.
Emplace(descs, d) ==
    IF \E x \in descs : x.key = d.key THEN descs ELSE descs \cup {d}

\* An erase that finds no entry.
EraseNothing(descs, k) == descs

\* unordered_map::erase(key).
Erase(descs, k) == {x \in descs : x.key # k}

\* sampleRegion.bounds() after orSelf of every descriptor area.
SampledArea(descs) ==
    LET some == CHOOSE d \in descs : TRUE
        RECURSIVE Bound(_, _)
        Bound(acc, rest) ==
            IF rest = {} THEN acc
            ELSE LET d == CHOOSE x \in rest : TRUE
                 IN Bound(Rect(Min(acc.left, d.area.left), Min(acc.top, d.area.top),
                               Max(acc.right, d.area.right),
                               Max(acc.bottom, d.area.bottom)),
                          rest \ {d})
    IN Bound(some.area, descs \ {some})

\* ------------------------------------------------------------ layer filter
\* The locals of traverseLayers and captureSample the filter writes:
\* stopLayerFound, listeners, and the layers handed on to visitor(layer).
FilterStart == [stopLayerFound |-> FALSE, listeners |-> {}, rendered |-> <<>>]

\* A filter that never looks for stop layers.
filterVisitorStopIgnored(st, layer, descs, sampledArea) ==
    LET transformed == LayerBounds(layer)
        hit == {d \in descs : Intersect(transformed, d.area)}
    IN IF ~Intersect(transformed, sampledArea) THEN st
       ELSE IF hit = {} THEN st
       ELSE [st EXCEPT !.listeners = @ \cup {d.listener : d \in hit},
                       !.rendered = Append(@, layer)]

\* A filter that skips a stop layer and goes on with the layers after it.
filterVisitorStopNotLatched(st, layer, descs, sampledArea) ==
    IF \E d \in descs : d.stopLayer = layer THEN st
    ELSE LET transformed == LayerBounds(layer)
             hit == {d \in descs : Intersect(transformed, d.area)}
         IN IF ~Intersect(transformed, sampledArea) THEN st
            ELSE IF hit = {} THEN st
            ELSE [st EXCEPT !.listeners = @ \cup {d.listener : d \in hit},
                            !.rendered = Append(@, layer)]

filterVisitor(st, layer, descs, sampledArea) ==
    IF st.stopLayerFound THEN st
    ELSE IF \E d \in descs : d.stopLayer = layer
    THEN [st EXCEPT !.stopLayerFound = TRUE]
    ELSE LET transformed == LayerBounds(layer)
             hit == {d \in descs : Intersect(transformed, d.area)}
         IN IF ~Intersect(transformed, sampledArea) THEN st
            ELSE IF hit = {} THEN st
            ELSE [st EXCEPT !.listeners = @ \cup {d.listener : d \in hit},
                            !.rendered = Append(@, layer)]

RECURSIVE traverseFrom(_, _, _, _)
traverseFrom(st, scene, descs, sampledArea) ==
    IF scene = <<>> THEN st
    ELSE traverseFrom(filterVisitor(st, Head(scene), descs, sampledArea),
                      Tail(scene), descs, sampledArea)

traverseLayers(scene, descs) ==
    traverseFrom(FilterStart, scene, descs, SampledArea(descs))

\* Every descriptor of the snapshot, whatever the filter marked.
ActiveAll(descs, ls) == descs

\* activeDescriptors: the snapshot descriptors whose listener is in listeners.
ActiveDescriptors(descs, ls) == {d \in descs : d.listener \in ls}

\* ------------------------------------------------------------- luma sampler
\* std::array<int32_t, 256> brightnessBuckets
BucketCount == 256

\* A pixel of the locked buffer, 0xAABBGGRR; the alpha byte, which sampleArea
\* never reads, is left zero.
Pixel(r, g, b) == r + 256 * g + 65536 * b

Gray(k) == Pixel(k, k, k)

\* The pixel values the sampled content is drawn from: black, the darkest
\* grey, pure red (level 54) and white.
Palette == {Gray(0), Gray(1), Pixel(255, 0, 0), Gray(255)}

\* What the buffer holds outside the sampled rectangle.
Filler == Gray(128)

\* getLuma(r, g, b) * 255.0f for r = R / 255.0f, g = G / 255.0f and
\* b = B / 255.0f, in ten-thousandths and in exact arithmetic.
getLuma(R, G, B) == 2126 * R + 7152 * G + 722 * B

\* const uint8_t luma = std::round(getLuma(r, g, b) * 255.0f) of one pixel.
Luma(pixel) ==
    LET R == pixel % 256
        G == (pixel \div 256) % 256
        B == (pixel \div 65536) % 256
    IN ((getLuma(R, G, B) + 5000) \div 10000) % 256

\* A threshold of the whole pixel count, which no bucket exceeds.
MajorityIsAll(area) == getWidth(area) * getHeight(area)

\* majoritySampleNum = area.getWidth() * area.getHeight() / 2
MajoritySampleNum(area) == (getWidth(area) * getHeight(area)) \div 2

\* std::array<int32_t, 256> brightnessBuckets = {}
NoBuckets == [level \in 0..(BucketCount - 1) |-> 0]

\* The two loops over the rectangle from (row, column) on: count the pixel's
\* level and return it as soon as its bucket exceeds majoritySampleNum.
RECURSIVE scanArea(_, _, _, _, _, _)
scanArea(data, stride, area, row, column, brightnessBuckets) ==
    IF row >= area.bottom
    THEN [returned |-> FALSE, luma |-> 0, brightnessBuckets |-> brightnessBuckets]
    ELSE IF column >= area.right
    THEN scanArea(data, stride, area, row + 1, area.left, brightnessBuckets)
    ELSE LET luma == Luma(data[row * stride + column])
             counted == [brightnessBuckets EXCEPT ![luma] = @ + 1]
         IN IF counted[luma] > MajoritySampleNum(area)
            THEN [returned |-> TRUE, luma |-> luma, brightnessBuckets |-> counted]
            ELSE scanArea(data, stride, area, row, column + 1, counted)

\* brightnessBuckets[bucket]: operator[] checks nothing, so an index past the
\* array reads whatever the stack holds behind it.
ReadBucket(brightnessBuckets, bucket, junk) ==
    IF bucket < BucketCount THEN brightnessBuckets[bucket] ELSE junk

\* int32_t accumulated = 0; size_t bucket = 0; and no read made yet.
LoopStart == [bucket |-> 0, accumulated |-> 0, lastRead |-> -1, left |-> FALSE]

\* One round of while (bucket++ < brightnessBuckets.size()) { accumulated +=
\* brightnessBuckets[bucket]; if (accumulated > majoritySampleNum) break; }:
\* the test reads bucket and then increments it, and the body indexes with the
\* incremented value.  A loop that was left stays left.
accumulateStep(loop, brightnessBuckets, majoritySampleNum, junk) ==
    IF loop.left THEN loop
    ELSE IF loop.bucket < BucketCount
    THEN LET index == loop.bucket + 1
             sum == loop.accumulated + ReadBucket(brightnessBuckets, index, junk)
         IN [bucket |-> index, accumulated |-> sum, lastRead |-> index,
             left |-> sum > majoritySampleNum]
    ELSE [loop EXCEPT !.bucket = @ + 1, !.left = TRUE]

\* rounds rounds of the loop, one after the other.
RECURSIVE accumulate(_, _, _, _, _)
accumulate(loop, rounds, brightnessBuckets, majoritySampleNum, junk) ==
    IF rounds = 1
    THEN accumulateStep(loop, brightnessBuckets, majoritySampleNum, junk)
    ELSE LET first == accumulate(loop, rounds \div 2, brightnessBuckets,
                                 majoritySampleNum, junk)
         IN IF first.left THEN first
            ELSE accumulate(first, rounds - rounds \div 2, brightnessBuckets,
                            majoritySampleNum, junk)

\* sampleArea(data, stride, area).  The float it returns is level / 255.0f;
\* path tells which return statement gave it and lastRead is the highest
\* index the second loop read (-1 when it did not run).
sampleArea(data, stride, area, junk) ==
    LET scan == scanArea(data, stride, area, area.top, area.left, NoBuckets)
    IN IF scan.returned
       THEN [level |-> scan.luma, path |-> "early", lastRead |-> -1]
       ELSE LET loop == accumulate(LoopStart, BucketCount + 1, scan.brightnessBuckets,
                                   MajoritySampleNum(area), junk)
            IN [level |-> loop.bucket, path |-> "fallback",
                lastRead |-> loop.lastRead]

\* What a read behind brightnessBuckets may give: nothing, or more than any
\* majoritySampleNum.
StackGarbage == {0, MaxPixels + 1}

\* The rectangles sampleBuffer passes (descriptor.area - leftTop): up to
\* MaxSide wide and high, MaxPixels pixels, at most one pixel off the origin.
SampleAreas ==
    {Rect(l, t, l + w, t + h) : l \in 0..1, t \in 0..1, w \in 0..MaxSide, h \in 0..MaxSide}

\* The locked buffer that ends at the rectangle's right and bottom edge, with
\* the given content inside the rectangle, row by row.
BufferOf(area, content) ==
    [i \in 0..(area.right * area.bottom - 1) |->
        LET row == i \div area.right
            column == i % area.right
        IN IF row >= area.top /\ column >= area.left
           THEN content[(row - area.top) * getWidth(area) + (column - area.left) + 1]
           ELSE Filler]

\* The calls of sampleArea that are about to be made: a rectangle, a buffer
\* with any content of the palette in it, and the buffer's stride.
SampleInputs ==
    UNION {{[pc |-> "ready", data |-> BufferOf(area, content), stride |-> area.right,
             area |-> area,
             result |-> [level |-> -1, path |-> "none", lastRead |-> -1]] :
               content \in [1..(getWidth(area) * getHeight(area)) -> Palette]} :
           area \in {a \in SampleAreas : getWidth(a) * getHeight(a) <= MaxPixels}}

\* ------------------------------------------------------------------- state
VARIABLES
    mRunning,          \* threadMain's loop flag
    mSampleRequested,  \* the request flag
    mDescriptors,      \* the registry
    mMutex,            \* "free", or "worker" while the worker holds it
    notified,          \* the worker is blocked in mCondition and was notified
    wpc,               \* the worker's position
    mpc,               \* the compositor main thread's position
    dpc,               \* the destructor's position
    descriptors,       \* captureSample's snapshot of the registry
    listeners,         \* captureSample's set of listeners marked active
    traversal,         \* the layers the capture visited, in order
    rendered,          \* the layers the filter handed on to the renderer
    pending,           \* active descriptors whose callback is still to come
    delivered,         \* onSampleCollected calls per listener in this pass
    lockFailed,        \* buffer->lock gave no data in this pass
    callsAhead,        \* sampleNow() calls made minus passes begun
    unserved,          \* a sampleNow() returned and no pass began since
    expected,          \* listeners added and not removed or dead since
    liveAtStart,       \* expected, as it was when the pass began
    sampler            \* a call of sampleArea: its arguments and its result

threadVars ==
    <<mRunning, mSampleRequested, mDescriptors, mMutex, notified, wpc, mpc, dpc,
      descriptors, listeners, traversal, rendered, pending, delivered, lockFailed,
      callsAhead, unserved, expected, liveAtStart>>

vars == <<threadVars, sampler>>

registryVars == <<mDescriptors, expected>>

passVars ==
    <<descriptors, listeners, traversal, rendered, pending, delivered, lockFailed,
      liveAtStart>>

countVars == <<callsAhead, unserved>>

NoCallbacks == [l \in Listeners |-> 0]

\* No call of sampleArea is in progress.
NoSample == [pc |-> "idle"]

\* The object after its constructor: the worker thread is started and the
\* registry is empty.
Constructed ==
    /\ mRunning = TRUE
    /\ mSampleRequested = FALSE
    /\ mDescriptors = {}
    /\ mMutex = "free"
    /\ notified = FALSE
    /\ wpc = "start"
    /\ mpc = "idle"
    /\ dpc = "alive"
    /\ descriptors = {}
    /\ listeners = {}
    /\ traversal = <<>>
    /\ rendered = <<>>
    /\ pending = {}
    /\ delivered = NoCallbacks
    /\ lockFailed = FALSE
    /\ callsAhead = 0
    /\ unserved = FALSE
    /\ expected = {}
    /\ liveAtStart = {}

Init ==
    /\ Constructed
    /\ sampler = NoSample

\* A critical section that leaves without notifying.
NotifyNone == notified

\* mCondition.notify_one(): wakes the worker only if it is blocked in wait.
NotifyOne == IF wpc = "blocked" THEN TRUE ELSE notified

\* ------------------------------------------------------- registry operations
\* The registry addListener(listener, samplingArea, stopLayerHandle) leaves.
RegistryAfterAdd(l, area, stop) == Emplace(mDescriptors, Descriptor(l, area, stop))

addListener(l, area, stop) ==
    /\ dpc = "alive"
    /\ mMutex = "free"
    /\ mDescriptors' = RegistryAfterAdd(l, area, stop)
    /\ expected' = expected \cup {l}
    /\ UNCHANGED sampler
    /\ UNCHANGED <<mRunning,mSampleRequested, mMutex, notified, wpc, mpc, dpc>>
    /\ UNCHANGED <<passVars, countVars>>

removeListener(l) ==
    /\ dpc = "alive"
    /\ mMutex = "free"
    /\ mDescriptors' = Erase(mDescriptors, l)
    /\ expected' = expected \ {l}
    /\ UNCHANGED sampler
    /\ UNCHANGED <<mRunning,mSampleRequested, mMutex, notified, wpc, mpc, dpc>>
    /\ UNCHANGED <<passVars, countVars>>

\* A death notification that leaves the registry as it is.
binderDiedIgnored(who) ==
    /\ dpc = "alive"
    /\ mMutex = "free"
    /\ expected' = expected \ {who}
    /\ UNCHANGED sampler
    /\ UNCHANGED <<mRunning,mSampleRequested, mMutex, notified, wpc, mpc, dpc>>
    /\ UNCHANGED <<mDescriptors, passVars, countVars>>

\* addListener links this object to the listener's death and removeListener
\* never unlinks it, so the notification may also come for an absent identity.
binderDied(who) ==
    /\ dpc = "alive"
    /\ mMutex = "free"
    /\ mDescriptors' = Erase(mDescriptors, who)
    /\ expected' = expected \ {who}
    /\ UNCHANGED sampler
    /\ UNCHANGED <<mRunning,mSampleRequested, mMutex, notified, wpc, mpc, dpc>>
    /\ UNCHANGED <<passVars, countVars>>

\* --------------------------------------------------------------- sampleNow
\* The main thread has called sampleNow() and is about to take mMutex.
sampleNowCall ==
    /\ dpc = "alive"
    /\ mpc = "idle"
    /\ callsAhead < MaxAhead
    /\ mpc' = "sampleNow"
    /\ callsAhead' = callsAhead + 1
    /\ UNCHANGED sampler
    /\ UNCHANGED <<mRunning,mSampleRequested, mMutex, notified, wpc, dpc, unserved>>
    /\ UNCHANGED <<registryVars, passVars>>

sampleNow ==
    /\ mpc = "sampleNow"
    /\ dpc # "destroyed"
    /\ mMutex = "free"
    /\ mSampleRequested' = TRUE
    /\ notified' = NotifyOne
    /\ unserved' = TRUE
    /\ mpc' = "idle"
    /\ UNCHANGED sampler
    /\ UNCHANGED <<mRunning,mMutex, wpc, dpc, callsAhead>>
    /\ UNCHANGED <<registryVars, passVars>>

\* -------------------------------------------------------------- threadMain
\* A loop that never looks at mRunning.
LoopConditionIgnored == TRUE

\* while (mRunning)
LoopCondition == mRunning

\* std::lock_guard lock(mMutex) at the top of threadMain.
threadMainLock ==
    /\ wpc = "start"
    /\ mMutex = "free"
    /\ mMutex' = "worker"
    /\ wpc' = "loop"
    /\ UNCHANGED sampler
    /\ UNCHANGED <<mRunning,mSampleRequested, notified, mpc, dpc>>
    /\ UNCHANGED <<registryVars, passVars, countVars>>

\* while (mRunning) fails: the loop ends and the lock_guard releases mMutex.
threadMainExit ==
    /\ wpc = "loop"
    /\ ~LoopCondition
    /\ wpc' = "done"
    /\ mMutex' = "free"
    /\ UNCHANGED sampler
    /\ UNCHANGED <<mRunning,mSampleRequested, notified, mpc, dpc>>
    /\ UNCHANGED <<registryVars, passVars, countVars>>

\* The loop body with mSampleRequested false: straight to the wait.
threadMainNoRequest ==
    /\ wpc = "loop"
    /\ LoopCondition
    /\ ~mSampleRequested
    /\ wpc' = "wait"
    /\ UNCHANGED sampler
    /\ UNCHANGED <<mRunning,mSampleRequested, mMutex, notified, mpc, dpc>>
    /\ UNCHANGED <<registryVars, passVars, countVars>>

\* A capture call made with mMutex still held.
MutexKeptDuringCapture == "worker"

\* mMutex.unlock() before captureScreenCore: what the worker holds during it.
MutexDuringCapture == "free"

\* A worker that leaves the request flag set when it begins a pass.
FlagLeftSet == TRUE

\* mSampleRequested = false
FlagConsumed == FALSE

\* mSampleRequested = false; captureSample() up to the capture call: return at
\* once on an empty registry, else snapshot the registry, drop mMutex and post
\* the capture to the main thread.
captureSampleBegin ==
    /\ wpc = "loop"
    /\ LoopCondition
    /\ mSampleRequested
    /\ mSampleRequested' = FlagConsumed
    /\ callsAhead' = callsAhead - 1
    /\ unserved' = FALSE
    /\ liveAtStart' = expected
    /\ IF mDescriptors = {}
       THEN /\ wpc' = "deliver"
            /\ UNCHANGED <<descriptors, mMutex>>
       ELSE /\ descriptors' = mDescriptors
            /\ mMutex' = MutexDuringCapture
            /\ wpc' = "capture"
    /\ UNCHANGED sampler
    /\ UNCHANGED <<mRunning,notified, mpc, dpc>>
    /\ UNCHANGED <<registryVars, listeners, traversal, rendered, pending, delivered,
                   lockFailed>>

\* A capture whose filter reads the registry instead of the snapshot.
captureScreenCoreLive(scene) ==
    /\ wpc = "capture"
    /\ mpc = "idle"
    /\ LET st == IF mDescriptors = {} THEN FilterStart
                 ELSE traverseLayers(scene, mDescriptors)
       IN /\ listeners' = st.listeners
          /\ rendered' = st.rendered
    /\ traversal' = scene
    /\ wpc' = "relock"
    /\ UNCHANGED sampler
    /\ UNCHANGED <<mRunning, mSampleRequested, mMutex, notified, mpc, dpc>>
    /\ UNCHANGED <<registryVars, descriptors, pending, delivered, lockFailed,
                   liveAtStart, countVars>>

\* The main thread services the capture: captureScreenCore runs traverseLayers
\* over the scene and returns to the worker.
captureScreenCore(scene) ==
    /\ wpc = "capture"
    /\ mpc = "idle"
    /\ LET st == traverseLayers(scene, descriptors)
       IN /\ listeners' = st.listeners
          /\ rendered' = st.rendered
    /\ traversal' = scene
    /\ wpc' = "relock"
    /\ UNCHANGED sampler
    /\ UNCHANGED <<mRunning,mSampleRequested, mMutex, notified, mpc, dpc>>
    /\ UNCHANGED <<registryVars, descriptors, pending, delivered, lockFailed,
                   liveAtStart, countVars>>

\* A resume that goes on to the delivery loop whatever the size of lumas.
captureSampleResumeUnchecked(locked) ==
    /\ wpc = "relock"
    /\ mMutex = "free"
    /\ mMutex' = "worker"
    /\ pending' = ActiveDescriptors(descriptors, listeners)
    /\ lockFailed' = ~locked
    /\ wpc' = "deliver"
    /\ UNCHANGED sampler
    /\ UNCHANGED <<mRunning, mSampleRequested, notified, mpc, dpc>>
    /\ UNCHANGED <<registryVars, descriptors, listeners, traversal, rendered,
                   delivered, liveAtStart, countVars>>

\* mMutex.lock() after the capture, activeDescriptors, sampleBuffer and the
\* size check: lumas is empty when buffer->lock gave no data.
captureSampleResume(locked) ==
    /\ wpc = "relock"
    /\ mMutex = "free"
    /\ mMutex' = "worker"
    /\ LET activeDescriptors == ActiveDescriptors(descriptors, listeners)
           lumas == IF locked THEN Cardinality(activeDescriptors) ELSE 0
       IN pending' = IF lumas # Cardinality(activeDescriptors) THEN {}
                     ELSE activeDescriptors
    /\ lockFailed' = ~locked
    /\ wpc' = "deliver"
    /\ UNCHANGED sampler
    /\ UNCHANGED <<mRunning,mSampleRequested, notified, mpc, dpc>>
    /\ UNCHANGED <<registryVars, descriptors, listeners, traversal, rendered,
                   delivered, liveAtStart, countVars>>

\* activeDescriptors[d].listener->onSampleCollected(lumas[d]).
onSampleCollected(d) ==
    /\ wpc = "deliver"
    /\ d \in pending
    /\ pending' = pending \ {d}
    /\ delivered' = [delivered EXCEPT ![d.listener] = @ + 1]
    /\ UNCHANGED sampler
    /\ UNCHANGED <<mRunning,mSampleRequested, mMutex, notified, wpc, mpc, dpc>>
    /\ UNCHANGED <<registryVars, descriptors, listeners, traversal, rendered,
                   lockFailed, liveAtStart, countVars>>

\* captureSample returns: its locals are gone.
captureSampleReturn ==
    /\ wpc = "deliver"
    /\ pending = {}
    /\ wpc' = "wait"
    /\ descriptors' = {}
    /\ listeners' = {}
    /\ traversal' = <<>>
    /\ rendered' = <<>>
    /\ delivered' = NoCallbacks
    /\ lockFailed' = FALSE
    /\ liveAtStart' = {}
    /\ UNCHANGED sampler
    /\ UNCHANGED <<mRunning,mSampleRequested, mMutex, notified, mpc, dpc, pending>>
    /\ UNCHANGED <<registryVars, countVars>>

\* A wait that only a request ends.
WaitPredicateNoShutdown == mSampleRequested

\* The predicate of mCondition.wait.
WaitPredicate == mSampleRequested \/ ~mRunning

\* mCondition.wait(mMutex, pred): back to the loop if pred holds, else release
\* mMutex and block.
conditionWait ==
    /\ wpc = "wait"
    /\ IF WaitPredicate
       THEN /\ wpc' = "loop"
            /\ UNCHANGED <<mMutex, notified>>
       ELSE /\ wpc' = "blocked"
            /\ mMutex' = "free"
            /\ notified' = FALSE
    /\ UNCHANGED sampler
    /\ UNCHANGED <<mRunning,mSampleRequested, mpc, dpc>>
    /\ UNCHANGED <<registryVars, passVars, countVars>>

\* A notified worker re-acquires mMutex and evaluates the predicate again.
conditionWake ==
    /\ wpc = "blocked"
    /\ notified
    /\ mMutex = "free"
    /\ mMutex' = "worker"
    /\ notified' = FALSE
    /\ wpc' = "wait"
    /\ UNCHANGED sampler
    /\ UNCHANGED <<mRunning,mSampleRequested, mpc, dpc>>
    /\ UNCHANGED <<registryVars, passVars, countVars>>

\* A condition variable may also wake with no notification.
spuriousWake ==
    /\ wpc = "blocked"
    /\ ~notified
    /\ mMutex = "free"
    /\ mMutex' = "worker"
    /\ wpc' = "wait"
    /\ UNCHANGED sampler
    /\ UNCHANGED <<mRunning,mSampleRequested, notified, mpc, dpc>>
    /\ UNCHANGED <<registryVars, passVars, countVars>>

\* -------------------------------------------------------------- destructor
destructorCall ==
    /\ dpc = "alive"
    /\ dpc' = "lock"
    /\ UNCHANGED sampler
    /\ UNCHANGED <<mRunning,mSampleRequested, mMutex, notified, wpc, mpc>>
    /\ UNCHANGED <<registryVars, passVars, countVars>>

\* { lock_guard lock(mMutex); mRunning = false; mCondition.notify_one(); }
destructorStop ==
    /\ dpc = "lock"
    /\ mMutex = "free"
    /\ mRunning' = FALSE
    /\ notified' = NotifyOne
    /\ dpc' = "join"
    /\ UNCHANGED sampler
    /\ UNCHANGED <<mSampleRequested, mMutex, wpc, mpc>>
    /\ UNCHANGED <<registryVars, passVars, countVars>>

\* mThread.join() returns once threadMain has returned.
destructorJoin ==
    /\ dpc = "join"
    /\ wpc = "done"
    /\ dpc' = "destroyed"
    /\ UNCHANGED sampler
    /\ UNCHANGED <<mRunning,mSampleRequested, mMutex, notified, wpc, mpc>>
    /\ UNCHANGED <<registryVars, passVars, countVars>>

\* ----------------------------------------------------------- specification
Worker ==
    \/ threadMainLock
    \/ threadMainExit
    \/ threadMainNoRequest
    \/ captureSampleBegin
    \/ \E locked \in BOOLEAN : captureSampleResume(locked)
    \/ \E d \in pending : onSampleCollected(d)
    \/ captureSampleReturn
    \/ conditionWait
    \/ conditionWake

\* The steps of every thread but the ones that call addListener.
Others ==
    \/ \E l \in Listeners : removeListener(l)
    \/ \E who \in Listeners : binderDied(who)
    \/ sampleNowCall
    \/ sampleNow
    \/ \E scene \in Scenes : captureScreenCore(scene)
    \/ Worker
    \/ spuriousWake
    \/ destructorCall
    \/ destructorStop
    \/ destructorJoin

Next ==
    \/ \E l \in Listeners, area \in Areas, stop \in StopLayers :
           addListener(l, area, stop)
    \/ Others

Spec == Init /\ [][Next]_vars

\* The same program with every listener registered for AreaA and no stop
\* layer: the runs that decide the scheduling properties.
PlainNext ==
    \/ \E l \in Listeners : addListener(l, AreaA, NoLayer)
    \/ Others

\* Every runnable thread is scheduled, the capture call returns and so does
\* every callback; callers of the registry and of sampleNow are free to stop.
\* A thread waiting for mMutex gets it if it is free again and again.
Fairness ==
    /\ WF_vars(Worker)
    /\ SF_vars(sampleNow)
    /\ WF_vars(\E scene \in Scenes : captureScreenCore(scene))
    /\ SF_vars(destructorStop)
    /\ WF_vars(destructorJoin)

FairSpec == Init /\ [][PlainNext]_vars /\ Fairness

\* sampleArea on its own: any rectangle and buffer content of SampleInputs,
\* and one call of the function on it, with either outcome of a read behind
\* brightnessBuckets.
SampleInit ==
    /\ Constructed
    /\ sampler \in SampleInputs

sampleAreaCall(junk) ==
    /\ sampler.pc = "ready"
    /\ sampler' = [sampler EXCEPT
           !.pc = "returned",
           !.result = sampleArea(sampler.data, sampler.stride, sampler.area, junk)]
    /\ UNCHANGED threadVars

SampleNext == \E junk \in StackGarbage : sampleAreaCall(junk)

SampleSpec == SampleInit /\ [][SampleNext]_vars

\* -------------------------------------------------------------- properties
\* The capture has returned: listeners, traversal and rendered are its result.
Captured == wpc \in {"relock", "deliver"}

\* The pass has made every callback it will make.
PassComplete == wpc = "deliver" /\ pending = {}

\* The worker is inside a pass that reached the capture call.
InPass == wpc \in {"capture", "relock", "deliver"} /\ descriptors # {}

\* C1: the worker holds no mMutex while it is inside the capture call and
\* holds it again for the rest of the pass; a sampleNow() the main thread
\* made before servicing the capture gets the mutex and returns, and the
\* capture then completes.
C1_CaptureOutsideMutex ==
    /\ [](wpc = "capture" => mMutex = "free")
    /\ [](wpc = "deliver" => mMutex = "worker")
    /\ [](~(wpc = "capture" /\ mpc = "sampleNow" /\ mMutex = "worker"))
    /\ (wpc = "capture" /\ mpc = "sampleNow") ~> (mpc = "idle")
    /\ (wpc = "capture") ~> (wpc = "relock")

\* The main thread's sampleNow() returned while the worker waits for the main
\* thread to service the capture.
C1_Witness ==
    /\ wpc = "capture"
    /\ mpc = "idle"
    /\ mSampleRequested
    /\ unserved

\* C2: absent shutdown, every sampleNow() that returned is followed by a pass
\* that begins after it.
C2_RequestServed == [](unserved => <>(~unserved \/ dpc # "alive"))

\* A request that arrived while the worker is inside a pass with the mutex
\* dropped.
C2_Witness ==
    /\ unserved
    /\ wpc = "capture"
    /\ dpc = "alive"

\* C3: requests coalesce.  The passes begun never outnumber the sampleNow()
\* calls made; a step begins a pass only by taking a true mSampleRequested to
\* false, and each such consumption begins exactly one pass, however many
\* calls set the flag since the last one.
C3_RequestsCoalesce ==
    /\ [](callsAhead >= 0)
    /\ [][/\ callsAhead' < callsAhead =>
               (mSampleRequested /\ ~mSampleRequested'
                /\ callsAhead' = callsAhead - 1)
          /\ (mSampleRequested /\ ~mSampleRequested') =>
               callsAhead' = callsAhead - 1]_vars

\* Two calls were made before the worker consumed the flag and one pass served
\* them both: the worker is back in the wait with nothing left to serve.
C3_Witness ==
    /\ callsAhead = 1
    /\ ~mSampleRequested
    /\ ~unserved
    /\ mpc = "idle"
    /\ wpc = "blocked"

\* C4: the registry's key set is exactly the set of listeners added and not
\* removed or reported dead since; a removal or a death notification erases
\* exactly the entries of its identity (none when it is absent), and no step
\* of a pass changes the registry.
C4_RegistryTracksCalls ==
    /\ [](Keys(mDescriptors) = expected)
    /\ [][/\ (expected \ expected' # {}) =>
               mDescriptors' = {d \in mDescriptors : d.key \in expected'}
          /\ (wpc' # wpc \/ passVars' # passVars) =>
               mDescriptors' = mDescriptors]_vars

\* A listener of the pass in flight was removed while the capture was pending
\* and another is still registered.
C4_Witness ==
    /\ wpc = "capture"
    /\ Keys(descriptors) \ Keys(mDescriptors) # {}
    /\ mDescriptors # {}

\* C6: a pass makes callbacks only to listeners that were registered (added
\* and not removed or dead since) when it began; a registry call leaves the
\* pass in flight as it is, and mMutex, which a removal waits for, is free
\* again after every time the worker holds it.
C6_NoCallbackAfterRemoval ==
    /\ [](\A l \in Listeners : delivered[l] > 0 => l \in liveAtStart)
    /\ [][mDescriptors' # mDescriptors => UNCHANGED <<passVars, wpc>>]_vars
    /\ (mMutex = "worker") ~> (mMutex = "free")

\* A pass that began while one listener was not registered made its callback
\* to the other.
C6_Witness ==
    /\ wpc = "deliver"
    /\ \E l, k \in Listeners :
           /\ l \notin liveAtStart
           /\ delivered[k] = 1

\* C7: once mRunning is false no step begins a pass or consumes the request
\* flag, while a pass that is in flight still makes every callback of its
\* active descriptors.
C7_ShutdownStopsNewPasses ==
    /\ [][~mRunning =>
            /\ callsAhead' >= callsAhead
            /\ (mSampleRequested => mSampleRequested')
            /\ ~(wpc = "loop" /\ wpc' \in {"capture", "deliver"})]_vars
    /\ [](PassComplete /\ ~lockFailed =>
            \A d \in ActiveDescriptors(descriptors, listeners) :
                delivered[d.listener] = 1)
    /\ InPass ~> PassComplete

\* mRunning was cleared during the capture with the request flag set: the pass
\* has still made its callback.
C7_Witness ==
    /\ ~mRunning
    /\ mSampleRequested
    /\ PassComplete
    /\ \E l \in Listeners : delivered[l] = 1

\* C8: the destructor returns only after the worker has left threadMain, and
\* once called it does return.
C8_DestructorTerminates ==
    /\ [](dpc = "destroyed" => wpc = "done")
    /\ (dpc # "alive") ~> (dpc = "destroyed")

\* The destructor cleared mRunning while the worker was inside the capture
\* call.
C8_Witness ==
    /\ dpc = "join"
    /\ wpc = "capture"

\* C5: re-registration is last-write-wins.  In every state, addListener for an
\* identity the registry already holds leaves the registry holding the area
\* and stop boundary of that call, in exactly one entry for the identity.
C5_LastWriteWins ==
    \A l \in Keys(mDescriptors), area \in Areas, stop \in StopLayers :
        LET after == RegistryAfterAdd(l, area, stop)
        IN /\ Descriptor(l, area, stop) \in after
           /\ Cardinality({d \in after : d.key = l}) = 1

\* The stop boundary of descriptor d was visited with no layer that intersects
\* d's area before it.
StopPrecedesContent(d) ==
    \E i \in DOMAIN traversal :
        /\ traversal[i] = d.stopLayer
        /\ \A j \in 1..(i - 1) : ~Intersect(LayerBounds(traversal[j]), d.area)

\* C9: a descriptor whose stop boundary is visited before every layer that
\* intersects its area is not active in that pass and its listener gets no
\* callback in it.
C9_StopBeforeContent ==
    Captured =>
        \A d \in descriptors :
            StopPrecedesContent(d) =>
                /\ d.listener \notin listeners
                /\ d \notin pending
                /\ delivered[d.listener] = 0

\* A finished pass over two descriptors in which a layer that intersects the
\* area came after the stop boundary.
C9_Witness ==
    /\ PassComplete
    /\ Cardinality(descriptors) = 2
    /\ \E d \in descriptors :
           /\ StopPrecedesContent(d)
           /\ \E j \in DOMAIN traversal :
                  /\ traversal[j] # d.stopLayer
                  /\ Intersect(LayerBounds(traversal[j]), d.area)

\* C10: within one pass no listener gets onSampleCollected twice.
C10_AtMostOncePerPass == \A l \in Listeners : delivered[l] <= 1

\* A finished pass over two overlapping areas, two rendered layers that both
\* intersect one of them, and registry calls made during the capture: every
\* listener got one callback.
C10_Witness ==
    /\ PassComplete
    /\ Len(rendered) = 2
    /\ Cardinality({d.area : d \in descriptors}) = 2
    /\ Keys(mDescriptors) # Keys(descriptors)
    /\ \A l \in Listeners : delivered[l] = 1

\* C16: a pass whose buffer lock fails makes no callback, however many
\* descriptors are active; it ends like any other pass, with the worker back
\* in the wait holding mMutex and the registry as it was, and a sampleNow()
\* made after it is served by a new pass.
C16_LockFailureSkipsDelivery ==
    /\ [](lockFailed =>
            /\ pending = {}
            /\ delivered = NoCallbacks
            /\ wpc = "deliver"
            /\ mMutex = "worker")
    /\ [][(lockFailed' # lockFailed) =>
            /\ mDescriptors' = mDescriptors
            /\ mMutex' = "worker"
            /\ (lockFailed => wpc' = "wait")]_vars
    /\ lockFailed ~> (wpc = "wait" /\ ~lockFailed)
    /\ [](lockFailed => [](unserved => <>(~unserved \/ dpc # "alive")))

\* The buffer lock failed in a pass in which both listeners were active.
C16_Witness ==
    /\ lockFailed
    /\ Cardinality(ActiveDescriptors(descriptors, listeners)) = 2

\* C17: the worker does not hold mMutex while it makes its onSampleCollected
\* calls, so that a listener may call removeListener, addListener or
\* sampleNow from inside its callback and get the mutex.
C17_CallbacksOutsideMutex ==
    (wpc = "deliver" /\ pending # {}) => mMutex = "free"

\* The layer is the stop boundary of a descriptor of the snapshot.
IsStop(layer) == \E d \in descriptors : d.stopLayer = layer

\* No stop boundary was visited up to and including the i-th layer.
BeforeStop(i) == \A j \in 1..i : ~IsStop(traversal[j])

\* The i-th layer visited intersects the area of descriptor d.
Hits(i, d) == Intersect(LayerBounds(traversal[i]), d.area)

\* C18: the filter hands a layer on to the renderer only if no stop boundary
\* of any snapshot descriptor was visited before it, it is no stop boundary
\* itself, and its bounds intersect a descriptor area; the stop flag is one
\* for all descriptors, so no layer after the first stop boundary marks any
\* descriptor active.
C18_FilterForwardsOnly ==
    (Captured /\ descriptors # {}) =>
        /\ \A i \in DOMAIN traversal :
               (\E r \in DOMAIN rendered : rendered[r] = traversal[i]) =>
                   /\ \A j \in 1..(i - 1) : ~IsStop(traversal[j])
                   /\ ~IsStop(traversal[i])
                   /\ \E d \in descriptors : Hits(i, d)
        /\ \A d \in descriptors :
               d.listener \in listeners =>
                   \E i \in DOMAIN traversal : BeforeStop(i) /\ Hits(i, d)

\* The stop boundary of one descriptor was visited first and a layer that
\* intersects the area of a descriptor with no stop boundary after it: nothing
\* was rendered and nobody is active.
C18_Witness ==
    /\ Captured
    /\ Len(traversal) = 2
    /\ \E d, e \in descriptors :
           /\ d.stopLayer = traversal[1]
           /\ e.stopLayer = NoLayer
           /\ Hits(2, e)
    /\ rendered = <<>>
    /\ listeners = {}

\* C19: in a pass whose buffer lock succeeds a descriptor of the snapshot gets
\* its callback, once, exactly when a layer visited before any stop boundary
\* intersects its area, and none otherwise.
C19_CallbackIffForwardedHit ==
    (PassComplete /\ ~lockFailed) =>
        \A d \in descriptors :
            delivered[d.listener] =
                IF \E i \in DOMAIN traversal : BeforeStop(i) /\ Hits(i, d)
                THEN 1 ELSE 0

\* Areas A and B with no stop boundary and the one layer that covers both:
\* each listener got its callback.
C19_Witness ==
    /\ PassComplete
    /\ ~lockFailed
    /\ descriptors = {Descriptor(1, AreaA, NoLayer), Descriptor(2, AreaB, NoLayer)}
    /\ traversal = <<1>>
    /\ delivered = [l \in Listeners |-> IF l \in {1, 2} THEN 1 ELSE 0]

\* C20: while mMutex is dropped for the capture the worker leaves mDescriptors,
\* mSampleRequested and mRunning alone, and the filter and the delivery work
\* on the snapshot only: whatever registry and sampleNow calls are made during
\* the capture, the pass keeps its snapshot and its result is the filter's
\* result on that snapshot.
C20_CaptureUsesSnapshot ==
    /\ []((Captured /\ descriptors # {}) =>
            LET st == traverseLayers(traversal, descriptors)
            IN /\ listeners = st.listeners
               /\ rendered = st.rendered
               /\ pending \subseteq ActiveDescriptors(descriptors, st.listeners))
    /\ [][/\ (wpc \in {"capture", "relock"}) => descriptors' = descriptors
          /\ (wpc = "capture" /\ wpc' # wpc) =>
               UNCHANGED <<mDescriptors, mSampleRequested, mRunning>>]_vars

\* During the capture a listener was removed, so that the registry's sampled
\* rectangle is no longer the snapshot's, and sampleNow() was called: the
\* capture marked both listeners of the snapshot.
C20_Witness ==
    /\ wpc = "relock"
    /\ mSampleRequested
    /\ mDescriptors # {}
    /\ SampledArea(mDescriptors) # SampledArea(descriptors)
    /\ listeners = Keys(descriptors)
    /\ Cardinality(listeners) = 2

\* ------------------------------------------------- properties of sampleArea
\* The call of sampleArea has returned.
Returned == sampler.pc = "returned"

\* The pixel positions of the call's rectangle.
AreaPixels ==
    {<<row, column>> : row \in sampler.area.top..(sampler.area.bottom - 1),
                       column \in sampler.area.left..(sampler.area.right - 1)}

\* The number of pixels of the rectangle whose level is in levels.
LevelCount(levels) ==
    Cardinality({p \in AreaPixels :
                    Luma(sampler.data[p[1] * sampler.stride + p[2]]) \in levels})

\* C11: every value sampleArea returns is level / 255 for an integer level in
\* 0..255, on the early return and on the return after the second loop, for
\* every rectangle and pixel content.
C11_ResultInUnitRange ==
    Returned => sampler.result.level \in 0..(BucketCount - 1)

\* C12: for a rectangle of zero width or zero height sampleArea returns 0 and
\* reads nothing outside the 256 buckets.
C12_EmptyAreaGivesZero ==
    (Returned /\ (getWidth(sampler.area) = 0 \/ getHeight(sampler.area) = 0)) =>
        /\ sampler.result.level = 0
        /\ sampler.result.lastRead < BucketCount

\* C13: for a rectangle with pixels in it, a level k that more than half of
\* the pixels have is returned as k / 255 by the early return; a rectangle
\* filled with one level k returns k / 255, for every k in 0..255.
C13_MajorityReturnedEarly ==
    (Returned /\ ~isEmpty(sampler.area)) =>
        /\ \A k \in 0..(BucketCount - 1) :
               2 * LevelCount({k}) > Cardinality(AreaPixels) =>
                   /\ sampler.result.level = k
                   /\ sampler.result.path = "early"
        /\ \A k \in 0..(BucketCount - 1), junk \in StackGarbage :
               LET uniform == [i \in DOMAIN sampler.data |->
                                  IF sampler.data[i] = Filler THEN Filler ELSE Gray(k)]
                   result == sampleArea(uniform, sampler.stride, sampler.area, junk)
               IN /\ result.level = k
                  /\ result.path = "early"

\* Three white pixels and one other in a two by two rectangle that lies one
\* pixel off the buffer's origin in both directions.
C13_Witness ==
    /\ Returned
    /\ sampler.area = Rect(1, 1, 3, 3)
    /\ LevelCount({255}) = 3
    /\ Luma(sampler.data[1 * sampler.stride + 1]) # 255
    /\ sampler.result.level = 255

\* C14: when the scan ends with no level above half of the pixels, sampleArea
\* returns k / 255 for the smallest level k whose cumulative count over the
\* levels 0..k, level 0 included, exceeds floor(width * height / 2).
C14_FallbackIsCumulativeMedian ==
    (Returned /\ ~isEmpty(sampler.area) /\ sampler.result.path = "fallback") =>
        LET half == Cardinality(AreaPixels) \div 2
            k == sampler.result.level
        IN /\ k \in 0..(BucketCount - 1)
           /\ LevelCount(0..k) > half
           /\ \A j \in 0..(k - 1) : LevelCount(0..j) <= half

\* C15: the second loop indexes brightnessBuckets only with 0..255, whatever
\* the histogram is.
C15_BucketIndexInRange ==
    Returned => sampler.result.lastRead < BucketCount
====
